---- MODULE Spec2Model ----
(***************************************************************************)
(* A model of SchemaBuilder (src/src/schema_builder.js): the guard         *)
(* registry, the fragment store, and the two generators.                   *)
(*                                                                         *)
(* JavaScript strings are sequences of one-character strings, so that      *)
(* split, join, property-key coercion and iteration over a string behave   *)
(* as in the source.  JavaScript objects are insertion-ordered sequences   *)
(* of [k, v] entries.                                                      *)
(***************************************************************************)
EXTENDS Integers, Sequences, FiniteSets, TLC

VARIABLES guards, guardInstances, typeDefs, resolvers, last, calls

vars == <<guards, guardInstances, typeDefs, resolvers, last, calls>>

----------------------------------------------------------------------------
(* Bounds of the model *)

\* register and add calls made on one builder
MaxCalls == 2
\* the same, for the builder whose fragments all carry two guards
MaxGuardedCalls == 3
\* the same, for the builder that only takes resolvers
MaxResolverCalls == 3
\* the same, for the builder filled through addEntrypoint only
MaxEntrypointCalls == 3
\* the same, for the builder that only takes type definitions
MaxOrderedCalls == 3
\* the longest list of guard references handed to validateGuards and
\* determineRunnableGuards, and the most guard classes registered before
MaxRefs == 2
MaxRegistered == 2

----------------------------------------------------------------------------
(* String literals of the source and of its callers *)

S_null == <<"n","u","l","l">>
S_undefined == <<"u","n","d","e","f","i","n","e","d">>
S_query == <<"q","u","e","r","y">>
S_mutation == <<"m","u","t","a","t","i","o","n">>
S_subscription == <<"s","u","b","s","c","r","i","p","t","i","o","n">>
S_type == <<"t","y","p","e">>
\* a group outside the closed set
S_bogus == <<"b","o","g","u","s">>
\* guard ids of the test guards
S_test_guard == <<"t","e","s","t","_","g","u","a","r","d">>
S_other_guard == <<"o","t","h","e","r","_","g","u","a","r","d">>
\* a guard id no class declares (README's example guard, never registered here)
S_is_admin == <<"i","s","_","a","d","m","i","n">>
\* a property every plain object inherits from Object.prototype
S_constructor == <<"c","o","n","s","t","r","u","c","t","o","r">>
\* resolver names used by the tests
S_Foo == <<"F","o","o">>
S_test == <<"t","e","s","t">>
\* parameterized guard references
S_test_guard_xy == S_test_guard \o <<":", "x", ",", "y">>
S_other_guard_x == S_other_guard \o <<":", "x">>
\* opaque payloads
S_A == <<"A">>
S_B == <<"B">>

----------------------------------------------------------------------------
(* JavaScript values that reach the group and guards parameters *)

Undefined == [t |-> "undefined", s |-> <<>>, a |-> <<>>]
Null == [t |-> "null", s |-> <<>>, a |-> <<>>]
Str(s) == [t |-> "string", s |-> s, a |-> <<>>]
Arr(a) == [t |-> "array", s |-> <<>>, a |-> a]

\* a default parameter value applies to undefined only
Default(v, d) == IF v.t = "undefined" THEN d ELSE v

RECURSIVE Join(_, _)
\* Array.prototype.join
Join(a, sep) ==
  IF Len(a) = 0 THEN <<>>
  ELSE IF Len(a) = 1 THEN a[1]
  ELSE a[1] \o sep \o Join(Tail(a), sep)

\* property-key coercion: String(v)
ToKey(v) ==
  CASE v.t = "undefined" -> S_undefined
    [] v.t = "null" -> S_null
    [] v.t = "string" -> v.s
    [] v.t = "array" -> Join(v.a, <<",">>)

RECURSIVE Split(_, _)
\* String.prototype.split on a one-character separator: the parts, at least one
Split(s, sep) ==
  IF \A i \in 1..Len(s) : s[i] # sep THEN <<s>>
  ELSE LET i == CHOOSE j \in 1..Len(s) : s[j] = sep /\ \A k \in 1..(j-1) : s[k] # sep
       IN <<SubSeq(s, 1, i - 1)>> \o Split(SubSeq(s, i + 1, Len(s)), sep)

----------------------------------------------------------------------------
(* JavaScript objects: insertion-ordered entries, with Object.prototype *)

\* the names a plain object inherits (one representative)
ProtoKeys == {S_constructor}

Keys(obj) == [i \in 1..Len(obj) |-> obj[i].k]
HasOwnProperty(obj, key) == \E i \in 1..Len(obj) : obj[i].k = key
Own(obj, key) == obj[CHOOSE i \in 1..Len(obj) : obj[i].k = key].v
\* obj[key] === undefined
IsUndefinedAt(obj, key) == ~HasOwnProperty(obj, key) /\ key \notin ProtoKeys
\* obj[key] = v
Put(obj, key, v) ==
  IF HasOwnProperty(obj, key)
  THEN [i \in 1..Len(obj) |-> IF obj[i].k = key THEN [k |-> key, v |-> v] ELSE obj[i]]
  ELSE Append(obj, [k |-> key, v |-> v])

----------------------------------------------------------------------------
(* Guards: the two guard classes of the unit tests, and request contexts *)

GuardClasses == {"TestGuard", "OtherGuard"}

\* id() of a guard class
ClassId(cls) == IF cls = "TestGuard" THEN S_test_guard ELSE S_other_guard

\* validate(context) of a guard class
ClassValidate(cls, context) ==
  IF cls = "TestGuard" THEN context.foo = "bar" ELSE context.other = "derp"

\* contexts of the tests: foo is "bar" or "derp", other is "derp" or absent
Contexts == [foo : {"bar", "derp"}, other : {"derp", "absent"}]

\* what guardInstances[id] yields for an inherited name: the Object function
ObjectFunction == [cls |-> "Object", n |-> 0]

----------------------------------------------------------------------------
(* The guard registry *)

RECURSIVE RegisterEach(_, _, _)
\* the loop of registerGuards over an array of classes
RegisterEach(list, gs, insts) ==
  IF Len(list) = 0 THEN [guards |-> gs, guardInstances |-> insts]
  ELSE LET gs2 == Append(gs, list[1])
           instance == [cls |-> list[1], n |-> Len(gs2)]
       IN RegisterEach(Tail(list), gs2, Put(insts, ClassId(list[1]), instance))

\* getGuardInstance(guardId): throws when guardInstances[guardId] === undefined
GetGuardInstance(guardId) ==
  IF IsUndefinedAt(guardInstances, guardId)
  THEN [threw |-> TRUE, v |-> ObjectFunction]
  ELSE [threw |-> FALSE,
        v |-> IF HasOwnProperty(guardInstances, guardId)
              THEN Own(guardInstances, guardId) ELSE ObjectFunction]

\* getGuardIds(): Object.keys(guardInstances)
GetGuardIds == Keys(guardInstances)

\* getGuards()
GetGuards == guards

\* parseGuard(guard)
ParseGuard(guard) ==
  LET parts == Split(guard, ":")
  IN [id |-> parts[1],
      extras |-> IF Len(parts) > 1 THEN Split(parts[2], ",") ELSE <<>>]

\* what a for-of loop over a value visits; a string yields its characters
Iterable(v) == v.t \in {"array", "string"}
Elements(v) ==
  IF v.t = "array" THEN v.a ELSE [i \in 1..Len(v.s) |-> <<v.s[i]>>]

RECURSIVE ValidateLoopExhaustive(_, _, _)
\* the loop of validateGuards running every guard before it throws for the
\* first one that returned false
ValidateLoopExhaustive(refs, context, evaluated) ==
  IF Len(refs) = 0
  THEN [status |-> "true", guardId |-> <<>>, extras |-> <<>>, evaluated |-> evaluated]
  ELSE LET parsed == ParseGuard(refs[1])
           got == GetGuardInstance(parsed.id)
       IN IF got.threw
          THEN [status |-> "Error", guardId |-> parsed.id, extras |-> parsed.extras,
                evaluated |-> evaluated]
          ELSE IF got.v.cls \notin GuardClasses
          THEN [status |-> "TypeError", guardId |-> parsed.id,
                extras |-> parsed.extras, evaluated |-> evaluated]
          ELSE LET rest == ValidateLoopExhaustive(Tail(refs), context,
                                                  Append(evaluated, parsed.id))
               IN IF ~ClassValidate(got.v.cls, context)
                  THEN [status |-> "GuardError", guardId |-> parsed.id,
                        extras |-> parsed.extras, evaluated |-> rest.evaluated]
                  ELSE rest

RECURSIVE ValidateLoop(_, _, _)
\* the loop of validateGuards; evaluated lists the ids whose validate has run
ValidateLoop(refs, context, evaluated) ==
  IF Len(refs) = 0
  THEN [status |-> "true", guardId |-> <<>>, extras |-> <<>>, evaluated |-> evaluated]
  ELSE LET parsed == ParseGuard(refs[1])
           got == GetGuardInstance(parsed.id)
       IN IF got.threw
          THEN [status |-> "Error", guardId |-> parsed.id, extras |-> parsed.extras,
                evaluated |-> evaluated]
          ELSE IF got.v.cls \notin GuardClasses
          THEN [status |-> "TypeError", guardId |-> parsed.id,
                extras |-> parsed.extras, evaluated |-> evaluated]
          ELSE IF ~ClassValidate(got.v.cls, context)
          THEN [status |-> "GuardError", guardId |-> parsed.id,
                extras |-> parsed.extras, evaluated |-> Append(evaluated, parsed.id)]
          ELSE ValidateLoop(Tail(refs), context, Append(evaluated, parsed.id))

\* validateGuards returning after the first reference of the list
ValidateGuardsFirstOnly(guardIds, context) ==
  IF ~Iterable(guardIds)
  THEN [status |-> "TypeError", guardId |-> <<>>, extras |-> <<>>, evaluated |-> <<>>]
  ELSE ValidateLoop(IF Len(Elements(guardIds)) = 0 THEN <<>> ELSE <<Head(Elements(guardIds))>>,
                    context, <<>>)

\* validateGuards(guardIds, context): "true", or the error it throws
ValidateGuards(guardIds, context) ==
  IF ~Iterable(guardIds)
  THEN [status |-> "TypeError", guardId |-> <<>>, extras |-> <<>>, evaluated |-> <<>>]
  ELSE ValidateLoop(Elements(guardIds), context, <<>>)

\* inGuardlist looking for the whole reference, parameters included
InGuardlistWholeRef(guard, guardList) ==
  \E i \in 1..Len(guardList) : guardList[i] = guard

\* inGuardlist(guard, guardList)
InGuardlist(guard, guardList) ==
  \E i \in 1..Len(guardList) : guardList[i] = ParseGuard(guard).id

\* determineRunnableGuards(guardList, whitelist), for a guardList whose
\* elements are strings: a non-array is wrapped into a one-element array
DetermineRunnableGuards(guardList, whitelist) ==
  LET list == IF guardList.t = "array" THEN guardList.a ELSE <<guardList.s>>
  IN Arr(SelectSeq(list, LAMBDA g : InGuardlist(g, whitelist)))

----------------------------------------------------------------------------
(* The fragment store *)

\* the entrypoints listed as mutation, query, subscription
entrypointsMutationFirst == <<S_mutation, S_query, S_subscription>>

\* the constructor's this.entrypoints
entrypoints == <<S_query, S_mutation, S_subscription>>

\* new SchemaBuilderItem(definition, guards = [])
SchemaBuilderItem(definition, guardsArg) ==
  [definition |-> definition, guards |-> Default(guardsArg, Arr(<<>>))]

\* [].concat([null], this.entrypoints).indexOf(group) !== -1, by strict equality
IsValidGroup(group) ==
  \/ group.t = "null"
  \/ group.t = "string" /\ \E i \in 1..Len(entrypoints) : entrypoints[i] = group.s

\* addTypeDef(typeDef, guards = [], group = null) applied to a typeDefs object
AddTypeDefTo(td, typeDef, guardsArg, groupArg) ==
  LET gs == Default(guardsArg, Arr(<<>>))
      group == Default(groupArg, Null)
      key == ToKey(group)
      td1 == IF ~HasOwnProperty(td, key) THEN Put(td, key, <<>>) ELSE td
  IN IF ~IsValidGroup(group)
     THEN [threw |-> TRUE, typeDefs |-> td1]
     ELSE [threw |-> FALSE,
           typeDefs |-> Put(td1, key, Append(Own(td1, key), SchemaBuilderItem(typeDef, gs)))]

RECURSIVE AddTypeDefsTo(_, _)
\* addTypeDefs(typeDefs): the loop stops at the first call that throws
AddTypeDefsTo(td, list) ==
  IF Len(list) = 0 THEN [threw |-> FALSE, typeDefs |-> td]
  ELSE LET r == AddTypeDefTo(td, list[1].definition, list[1].group, list[1].guards)
       IN IF r.threw THEN r ELSE AddTypeDefsTo(r.typeDefs, Tail(list))

\* addResolver without the test for a name already defined
AddResolverOverwriting(rs, resolverName, resolverDef, groupArg, guardsArg) ==
  LET gs == Default(guardsArg, Arr(<<>>))
      key == ToKey(groupArg)
      rs1 == IF ~HasOwnProperty(rs, key) THEN Put(rs, key, <<>>) ELSE rs
  IN IF ~IsValidGroup(groupArg)
     THEN [threw |-> TRUE, err |-> "InvalidGroup", resolvers |-> rs1]
     ELSE [threw |-> FALSE, err |-> "none",
           resolvers |-> Put(rs1, key,
              Put(Own(rs1, key), resolverName, SchemaBuilderItem(resolverDef, gs)))]

\* addResolver(resolverName, resolverDef, group, guards = []) applied to a
\* resolvers object; err names the error thrown
AddResolverTo(rs, resolverName, resolverDef, groupArg, guardsArg) ==
  LET gs == Default(guardsArg, Arr(<<>>))
      key == ToKey(groupArg)
      rs1 == IF ~HasOwnProperty(rs, key) THEN Put(rs, key, <<>>) ELSE rs
  IN IF ~IsValidGroup(groupArg)
     THEN [threw |-> TRUE, err |-> "InvalidGroup", resolvers |-> rs1]
     ELSE IF ~IsUndefinedAt(Own(rs1, key), resolverName)
     THEN [threw |-> TRUE, err |-> "AlreadyDefined", resolvers |-> rs1]
     ELSE [threw |-> FALSE, err |-> "none",
           resolvers |-> Put(rs1, key,
              Put(Own(rs1, key), resolverName, SchemaBuilderItem(resolverDef, gs)))]

\* addTypeResolver(resolverName, resolverDef, guards = [])
AddTypeResolverTo(rs, resolverName, resolverDef, guardsArg) ==
  AddResolverTo(rs, resolverName, resolverDef, Null, Default(guardsArg, Arr(<<>>)))

RECURSIVE AddTypeResolversTo(_, _)
\* addTypeResolvers(resolvers): one addTypeResolver per own entry, in key order
AddTypeResolversTo(rs, obj) ==
  IF Len(obj) = 0 THEN [threw |-> FALSE, err |-> "none", resolvers |-> rs]
  ELSE LET r == AddTypeResolverTo(rs, obj[1].k, obj[1].v.definition, obj[1].v.guards)
       IN IF r.threw THEN r ELSE AddTypeResolversTo(r.resolvers, Tail(obj))

RECURSIVE AddResolversTo(_, _)
\* addResolvers(resolvers): one addResolver per own entry, in key order
AddResolversTo(rs, obj) ==
  IF Len(obj) = 0 THEN [threw |-> FALSE, err |-> "none", resolvers |-> rs]
  ELSE LET r == AddResolverTo(rs, obj[1].k, obj[1].v.definition, obj[1].v.group,
                              obj[1].v.guards)
       IN IF r.threw THEN r ELSE AddResolversTo(r.resolvers, Tail(obj))

\* addEntrypoint(name, group, typeDef, resolver, guards = []): addTypeDef, then
\* addResolver unless addTypeDef threw
AddEntrypointTo(td, rs, name, group, typeDef, resolver, guardsArg) ==
  LET gs == Default(guardsArg, Arr(<<>>))
      t == AddTypeDefTo(td, typeDef, gs, group)
      r == AddResolverTo(rs, name, resolver, group, gs)
  IN IF t.threw
     THEN [threw |-> TRUE, err |-> "InvalidGroup", typeDefs |-> t.typeDefs,
           resolvers |-> rs]
     ELSE [threw |-> r.threw, err |-> r.err, typeDefs |-> t.typeDefs,
           resolvers |-> r.resolvers]

\* addType(name, typeDef, resolver, guards = [])
AddTypeTo(td, rs, name, typeDef, resolver, guardsArg) ==
  AddEntrypointTo(td, rs, name, Null, typeDef, resolver, Default(guardsArg, Arr(<<>>)))

----------------------------------------------------------------------------
(* The generators *)

Spaces(n) == [i \in 1..n |-> " "]

Upper(c) ==
  CASE c = "q" -> "Q" [] c = "m" -> "M" [] c = "s" -> "S" [] OTHER -> c

\* _.startCase(group), for the one-word lower-case entrypoint names
StartCase(group) == <<Upper(group[1])>> \o Tail(group)

\* guardWhitelist === null defaults to getGuardIds()
EffectiveWhitelist(guardWhitelist) ==
  IF guardWhitelist.t = "null" THEN GetGuardIds ELSE guardWhitelist.a

\* the try block of the no-group loops: validateGuards(item.guards, context)
\* returns without throwing
NullGroupPasses(item, context) ==
  ValidateGuards(item.guards, context).status = "true"

\* the try block of the entrypoint loops:
\* validateGuards(determineRunnableGuards(item.guards, whitelist), context)
\* returns without throwing (parseGuard throws on a null or undefined guard)
GroupPasses(item, whitelist, context) ==
  /\ item.guards.t \in {"array", "string"}
  /\ ValidateGuards(DetermineRunnableGuards(item.guards, whitelist), context).status
       = "true"

\* generateTypeDefs: the definitions pushed by the loop over typeDefs[null]
NullTypeDefs(context) ==
  LET kept == SelectSeq(Own(typeDefs, S_null), LAMBDA it : NullGroupPasses(it, context))
  IN [i \in 1..Len(kept) |-> kept[i].definition]

\* generateTypeDefs: whether the loop over entrypoints skips the group
TypeDefGroupSkipped(group) ==
  \/ IsUndefinedAt(typeDefs, group)
  \/ Len(Own(typeDefs, group)) = 0

\* generateTypeDefs: groupTypeDefs of one entrypoint group
GroupTypeDefs(group, whitelist, context) ==
  LET kept == SelectSeq(Own(typeDefs, group),
                        LAMBDA it : GroupPasses(it, whitelist, context))
  IN [i \in 1..Len(kept) |-> kept[i].definition]

\* the template literal pushed for one entrypoint group
Wrapper(group, groupTypeDefs) ==
  <<"\n">> \o Spaces(10) \o S_type \o <<" ">> \o StartCase(group) \o <<" ", "{", "\n">>
  \o Spaces(12) \o Join(groupTypeDefs, <<"\n">>) \o <<"\n">>
  \o Spaces(10) \o <<"}", "\n">> \o Spaces(8)

RECURSIVE TypeDefWrappers(_, _, _)
\* the loop over this.entrypoints of generateTypeDefs, from position i
TypeDefWrappers(i, whitelist, context) ==
  IF i > Len(entrypoints) THEN <<>>
  ELSE (IF TypeDefGroupSkipped(entrypoints[i]) THEN <<>>
        ELSE <<Wrapper(entrypoints[i],
                       GroupTypeDefs(entrypoints[i], whitelist, context))>>)
       \o TypeDefWrappers(i + 1, whitelist, context)

\* generateTypeDefs(context, guardWhitelist = null)
GenerateTypeDefs(context, guardWhitelist) ==
  LET whitelist == EffectiveWhitelist(guardWhitelist)
  IN Join(NullTypeDefs(context) \o TypeDefWrappers(1, whitelist, context), <<"\n">>)

\* a resolver definition, and a nested mapping, as values of the result object
RDef(d) == [t |-> "def", d |-> d, m |-> <<>>]
RMap(m) == [t |-> "map", d |-> <<>>, m |-> m]

RECURSIVE CopyDefinitions(_, _)
\* out[name] = resolver.definition for each entry of a bucket, in key order
CopyDefinitions(entries, out) ==
  IF Len(entries) = 0 THEN out
  ELSE CopyDefinitions(Tail(entries),
                       Put(out, entries[1].k, RDef(entries[1].v.definition)))

\* generateResolvers: the result after the loop over resolvers[null]
NullResolvers(context) ==
  IF IsUndefinedAt(resolvers, S_null) THEN <<>>
  ELSE CopyDefinitions(SelectSeq(Own(resolvers, S_null),
                                 LAMBDA e : NullGroupPasses(e.v, context)), <<>>)

\* generateResolvers: whether the loop over entrypoints skips the group
\* (the length of a plain object is undefined, never 0)
ResolverGroupSkipped(group) == IsUndefinedAt(resolvers, group)

\* generateResolvers: groupTypes of one entrypoint group
GroupTypes(group, whitelist, context) ==
  CopyDefinitions(SelectSeq(Own(resolvers, group),
                            LAMBDA e : GroupPasses(e.v, whitelist, context)), <<>>)

RECURSIVE ResolverGroups(_, _, _, _)
\* the loop over this.entrypoints of generateResolvers, from position i
ResolverGroups(i, out, whitelist, context) ==
  IF i > Len(entrypoints) THEN out
  ELSE ResolverGroups(i + 1,
         IF ResolverGroupSkipped(entrypoints[i]) THEN out
         ELSE Put(out, StartCase(entrypoints[i]),
                  RMap(GroupTypes(entrypoints[i], whitelist, context))),
         whitelist, context)

\* generateResolvers(context, guardWhitelist = null)
GenerateResolvers(context, guardWhitelist) ==
  ResolverGroups(1, NullResolvers(context), EffectiveWhitelist(guardWhitelist), context)

\* String.prototype.removeWhitespace of the unit tests
RemoveWhitespace(s) == SelectSeq(s, LAMBDA c : c \notin {"\n", " "})

----------------------------------------------------------------------------
(* State: the builder's fields, the most recent call with its outcome, and  *)
(* the number of register and add calls made so far                        *)

NoContext == [foo |-> "derp", other |-> "absent"]

\* the record of a call: its operation, arguments, and what it returned or threw
NoCall ==
  [op |-> "constructor", threw |-> FALSE, err |-> "none", name |-> <<>>,
   definition |-> <<>>, group |-> Undefined, guards |-> Undefined,
   context |-> NoContext, whitelist |-> Null, out |-> <<>>,
   instance |-> ObjectFunction]

\* the constructor
Init ==
  /\ guards = <<>>
  /\ guardInstances = <<>>
  /\ typeDefs = <<[k |-> S_null, v |-> <<>>]>>
  /\ resolvers = <<>>
  /\ last = NoCall
  /\ calls = 0

----------------------------------------------------------------------------
(* Calls of the registry *)

\* registerGuards(guards): a class, or an array of classes
RegisterGuards(isArray, list) ==
  LET r == RegisterEach(list, guards, guardInstances)
  IN /\ isArray \/ Len(list) = 1
     /\ guards' = r.guards
     /\ guardInstances' = r.guardInstances
     /\ last' = [NoCall EXCEPT !.op = "registerGuards", !.out = list]
     /\ calls' = calls + 1
     /\ UNCHANGED <<typeDefs, resolvers>>

\* getGuardInstance(guardId)
GetGuardInstanceCall(guardId) ==
  LET r == GetGuardInstance(guardId)
  IN /\ last' = [NoCall EXCEPT !.op = "getGuardInstance", !.name = guardId,
                               !.threw = r.threw,
                               !.err = IF r.threw THEN "NotFound" ELSE "none",
                               !.instance = r.v]
     /\ UNCHANGED <<guards, guardInstances, typeDefs, resolvers, calls>>

\* getGuardIds()
GetGuardIdsCall ==
  /\ last' = [NoCall EXCEPT !.op = "getGuardIds", !.out = GetGuardIds]
  /\ UNCHANGED <<guards, guardInstances, typeDefs, resolvers, calls>>

\* getGuards()
GetGuardsCall ==
  /\ last' = [NoCall EXCEPT !.op = "getGuards", !.out = GetGuards]
  /\ UNCHANGED <<guards, guardInstances, typeDefs, resolvers, calls>>

----------------------------------------------------------------------------
(* Calls of the fragment store *)

\* addTypeDef(typeDef, guards, group)
AddTypeDef(typeDef, guardsArg, groupArg) ==
  LET r == AddTypeDefTo(typeDefs, typeDef, guardsArg, groupArg)
  IN /\ typeDefs' = r.typeDefs
     /\ last' = [NoCall EXCEPT !.op = "addTypeDef", !.threw = r.threw,
                               !.err = IF r.threw THEN "InvalidGroup" ELSE "none",
                               !.definition = typeDef, !.group = groupArg,
                               !.guards = guardsArg]
     /\ calls' = calls + 1
     /\ UNCHANGED <<guards, guardInstances, resolvers>>

\* addTypeDefs(typeDefs)
AddTypeDefs(list) ==
  LET r == AddTypeDefsTo(typeDefs, list)
  IN /\ typeDefs' = r.typeDefs
     /\ last' = [NoCall EXCEPT !.op = "addTypeDefs", !.threw = r.threw,
                               !.err = IF r.threw THEN "InvalidGroup" ELSE "none",
                               !.out = list]
     /\ calls' = calls + 1
     /\ UNCHANGED <<guards, guardInstances, resolvers>>

\* addResolver(resolverName, resolverDef, group, guards)
AddResolver(resolverName, resolverDef, groupArg, guardsArg) ==
  LET r == AddResolverTo(resolvers, resolverName, resolverDef, groupArg, guardsArg)
  IN /\ resolvers' = r.resolvers
     /\ last' = [NoCall EXCEPT !.op = "addResolver", !.threw = r.threw, !.err = r.err,
                               !.name = resolverName, !.definition = resolverDef,
                               !.group = groupArg, !.guards = guardsArg]
     /\ calls' = calls + 1
     /\ UNCHANGED <<guards, guardInstances, typeDefs>>

\* addResolvers(resolvers)
AddResolvers(obj) ==
  LET r == AddResolversTo(resolvers, obj)
  IN /\ resolvers' = r.resolvers
     /\ last' = [NoCall EXCEPT !.op = "addResolvers", !.threw = r.threw, !.err = r.err,
                               !.out = obj]
     /\ calls' = calls + 1
     /\ UNCHANGED <<guards, guardInstances, typeDefs>>

\* addTypeResolver(resolverName, resolverDef, guards)
AddTypeResolver(resolverName, resolverDef, guardsArg) ==
  LET r == AddTypeResolverTo(resolvers, resolverName, resolverDef, guardsArg)
  IN /\ resolvers' = r.resolvers
     /\ last' = [NoCall EXCEPT !.op = "addTypeResolver", !.threw = r.threw,
                               !.err = r.err, !.name = resolverName,
                               !.definition = resolverDef, !.guards = guardsArg]
     /\ calls' = calls + 1
     /\ UNCHANGED <<guards, guardInstances, typeDefs>>

\* addTypeResolvers(resolvers)
AddTypeResolvers(obj) ==
  LET r == AddTypeResolversTo(resolvers, obj)
  IN /\ resolvers' = r.resolvers
     /\ last' = [NoCall EXCEPT !.op = "addTypeResolvers", !.threw = r.threw,
                               !.err = r.err, !.out = obj]
     /\ calls' = calls + 1
     /\ UNCHANGED <<guards, guardInstances, typeDefs>>

\* addEntrypoint(name, group, typeDef, resolver, guards)
AddEntrypoint(name, groupArg, typeDef, resolver, guardsArg) ==
  LET r == AddEntrypointTo(typeDefs, resolvers, name, groupArg, typeDef, resolver,
                           guardsArg)
  IN /\ typeDefs' = r.typeDefs
     /\ resolvers' = r.resolvers
     /\ last' = [NoCall EXCEPT !.op = "addEntrypoint", !.threw = r.threw,
                               !.err = r.err, !.name = name, !.definition = typeDef,
                               !.group = groupArg, !.guards = guardsArg]
     /\ calls' = calls + 1
     /\ UNCHANGED <<guards, guardInstances>>

\* addType(name, typeDef, resolver, guards)
AddType(name, typeDef, resolver, guardsArg) ==
  LET r == AddTypeTo(typeDefs, resolvers, name, typeDef, resolver, guardsArg)
  IN /\ typeDefs' = r.typeDefs
     /\ resolvers' = r.resolvers
     /\ last' = [NoCall EXCEPT !.op = "addType", !.threw = r.threw, !.err = r.err,
                               !.name = name, !.definition = typeDef,
                               !.guards = guardsArg]
     /\ calls' = calls + 1
     /\ UNCHANGED <<guards, guardInstances>>

----------------------------------------------------------------------------
(* Calls of the generators *)

\* generateTypeDefs taking the fragments out of the store as it emits them
GenerateTypeDefsDraining(context, guardWhitelist) ==
  /\ last' = [NoCall EXCEPT !.op = "generateTypeDefs", !.context = context,
                            !.whitelist = guardWhitelist,
                            !.out = GenerateTypeDefs(context, guardWhitelist)]
  /\ typeDefs' = [i \in 1..Len(typeDefs) |-> [k |-> typeDefs[i].k, v |-> <<>>]]
  /\ UNCHANGED <<guards, guardInstances, resolvers, calls>>

\* generateTypeDefs(context, guardWhitelist)
GenerateTypeDefsCall(context, guardWhitelist) ==
  /\ last' = [NoCall EXCEPT !.op = "generateTypeDefs", !.context = context,
                            !.whitelist = guardWhitelist,
                            !.out = GenerateTypeDefs(context, guardWhitelist)]
  /\ UNCHANGED <<guards, guardInstances, typeDefs, resolvers, calls>>

\* generateResolvers deleting from the store the resolvers it did not emit
GenerateResolversPruning(context, guardWhitelist) ==
  /\ last' = [NoCall EXCEPT !.op = "generateResolvers", !.context = context,
                            !.whitelist = guardWhitelist,
                            !.out = GenerateResolvers(context, guardWhitelist)]
  /\ resolvers' =
       [i \in 1..Len(resolvers) |->
          [k |-> resolvers[i].k,
           v |-> SelectSeq(resolvers[i].v,
                   LAMBDA e : IF resolvers[i].k = S_null
                              THEN NullGroupPasses(e.v, context)
                              ELSE GroupPasses(e.v, EffectiveWhitelist(guardWhitelist),
                                               context))]]
  /\ UNCHANGED <<guards, guardInstances, typeDefs, calls>>

\* generateResolvers(context, guardWhitelist)
GenerateResolversCall(context, guardWhitelist) ==
  /\ last' = [NoCall EXCEPT !.op = "generateResolvers", !.context = context,
                            !.whitelist = guardWhitelist,
                            !.out = GenerateResolvers(context, guardWhitelist)]
  /\ UNCHANGED <<guards, guardInstances, typeDefs, resolvers, calls>>

----------------------------------------------------------------------------
(* Calls of the guard-list methods *)

\* validateGuards(guardIds, context); out holds what it returned or threw
ValidateGuardsCall(guardIds, context) ==
  LET r == ValidateGuards(guardIds, context)
  IN /\ last' = [NoCall EXCEPT !.op = "validateGuards", !.guards = guardIds,
                               !.context = context, !.threw = r.status # "true",
                               !.err = IF r.status = "true" THEN "none" ELSE r.status,
                               !.name = r.guardId, !.out = r]
     /\ UNCHANGED <<guards, guardInstances, typeDefs, resolvers, calls>>

\* determineRunnableGuards(guardList, whitelist)
DetermineRunnableGuardsCall(guardList, whitelist) ==
  /\ last' = [NoCall EXCEPT !.op = "determineRunnableGuards", !.guards = guardList,
                            !.whitelist = Arr(whitelist),
                            !.out = DetermineRunnableGuards(guardList, whitelist).a]
  /\ UNCHANGED <<guards, guardInstances, typeDefs, resolvers, calls>>

----------------------------------------------------------------------------
(* Arguments the callers pass *)

\* the arrays of one or two elements of S
Arrays(S) == {<<x>> : x \in S} \cup {<<x, y>> : x \in S, y \in S}

\* the guards argument: omitted, or an array of guard references
GuardArgs == {Undefined, Arr(<<S_test_guard>>), Arr(<<S_is_admin>>)}
\* the group argument: omitted, null, an entrypoint, or something else
GroupArgs == {Undefined, Null, Str(S_query), Str(S_bogus)}
\* resolver names; "constructor" is a legal GraphQL field name
Names == {S_Foo, S_constructor}
\* the guardWhitelist argument: omitted (null), or an array of guard ids
Whitelists == {Null, Arr(<<>>)}
\* ids asked of getGuardInstance
GuardIdArgs == {S_test_guard, S_other_guard, S_is_admin, S_constructor}
\* contexts that leave other_guard unsatisfied
FooContexts == {c \in Contexts : c.other = "absent"}

\* elements of the array passed to addTypeDefs
TypeDefElements ==
  {[definition |-> S_A, guards |-> Undefined, group |-> Undefined],
   [definition |-> S_A, guards |-> Arr(<<S_test_guard>>), group |-> Str(S_query)],
   [definition |-> S_B, guards |-> Undefined, group |-> Null]}

\* objects passed to addResolvers and addTypeResolvers: distinct keys
ResolverObjects(values) ==
  {obj \in Arrays([k : {S_Foo, S_test}, v : values]) :
     \A i, j \in 1..Len(obj) : i # j => obj[i].k # obj[j].k}

ResolverElements ==
  [definition : {S_A}, guards : {Undefined}, group : {Undefined, Str(S_query)}]

TypeResolverElements ==
  [definition : {S_A}, guards : {Undefined, Arr(<<S_test_guard>>)}]

----------------------------------------------------------------------------
(* The builder under every call of its interface *)

Next ==
  \/ calls < MaxCalls /\ \E c \in GuardClasses : RegisterGuards(FALSE, <<c>>)
  \/ calls < MaxCalls /\ \E list \in Arrays(GuardClasses) : RegisterGuards(TRUE, list)
  \/ \E id \in GuardIdArgs : GetGuardInstanceCall(id)
  \/ GetGuardIdsCall
  \/ GetGuardsCall
  \/ calls < MaxCalls /\ \E gs \in GuardArgs, g \in GroupArgs : AddTypeDef(S_A, gs, g)
  \/ calls < MaxCalls /\ \E list \in Arrays(TypeDefElements) : AddTypeDefs(list)
  \/ calls < MaxCalls /\ \E n \in Names, g \in GroupArgs, gs \in GuardArgs :
       AddResolver(n, S_A, g, gs)
  \/ calls < MaxCalls /\ \E obj \in ResolverObjects(ResolverElements) : AddResolvers(obj)
  \/ calls < MaxCalls /\ \E n \in Names, gs \in GuardArgs : AddTypeResolver(n, S_A, gs)
  \/ calls < MaxCalls /\ \E obj \in ResolverObjects(TypeResolverElements) :
       AddTypeResolvers(obj)
  \/ calls < MaxCalls /\ \E n \in Names, g \in GroupArgs, gs \in GuardArgs :
       AddEntrypoint(n, g, S_A, S_A, gs)
  \/ calls < MaxCalls /\ \E n \in Names, gs \in GuardArgs : AddType(n, S_A, S_A, gs)
  \/ \E c \in FooContexts, w \in Whitelists : GenerateTypeDefsCall(c, w)
  \/ \E c \in FooContexts, w \in Whitelists : GenerateResolversCall(c, w)

Spec == Init /\ [][Next]_vars

----------------------------------------------------------------------------
(* The builder of the guard tests: both guards registered as in beforeEach, *)
(* every fragment tagged with the two guards in one order or the other      *)

BothGuards == Arr(<<S_test_guard, S_other_guard>>)
BothGuardsReversed == Arr(<<S_other_guard, S_test_guard>>)
GuardedGroups == {Null, Str(S_query)}
GuardedWhitelists == {Null, BothGuards, Arr(<<S_test_guard>>)}

NextGuarded ==
  \/ calls < MaxGuardedCalls /\ RegisterGuards(TRUE, <<"TestGuard", "OtherGuard">>)
  \/ calls < MaxGuardedCalls /\ \E g \in GuardedGroups : AddTypeDef(S_A, BothGuards, g)
  \/ calls < MaxGuardedCalls /\ \E g \in GuardedGroups :
       AddTypeDef(S_B, BothGuardsReversed, g)
  \/ calls < MaxGuardedCalls /\ \E g \in GuardedGroups :
       AddResolver(S_Foo, S_A, g, BothGuardsReversed)
  \/ calls < MaxGuardedCalls /\ AddTypeResolver(S_test, S_A, BothGuards)
  \/ \E c \in Contexts, w \in GuardedWhitelists : GenerateTypeDefsCall(c, w)
  \/ \E c \in Contexts, w \in GuardedWhitelists : GenerateResolversCall(c, w)

SpecGuarded == Init /\ [][NextGuarded]_vars

----------------------------------------------------------------------------
(* The builder under resolver registrations only *)

ResolverGroups3 == {Null, Str(S_query), Str(S_mutation)}

NextResolvers ==
  \/ calls < MaxResolverCalls /\
       \E n \in Names, d \in {S_A, S_B}, g \in ResolverGroups3,
          gs \in {Undefined, Arr(<<S_test_guard>>)} : AddResolver(n, d, g, gs)
  \/ calls < MaxResolverCalls /\ \E d \in {S_A, S_B} : AddTypeResolver(S_Foo, d, Undefined)
  \/ \E c \in FooContexts : GenerateResolversCall(c, Null)

SpecResolvers == Init /\ [][NextResolvers]_vars

----------------------------------------------------------------------------
(* The builder filled through addEntrypoint only *)

NextEntrypoints ==
  \/ calls < MaxEntrypointCalls /\ RegisterGuards(FALSE, <<"TestGuard">>)
  \/ calls < MaxEntrypointCalls /\
       \E n \in {S_Foo, S_test}, g \in {Str(S_query), Str(S_mutation)},
          gs \in {Undefined, Arr(<<S_test_guard>>)} : AddEntrypoint(n, g, S_A, S_A, gs)
  \/ \E c \in FooContexts, w \in Whitelists : GenerateTypeDefsCall(c, w)
  \/ \E c \in FooContexts, w \in Whitelists : GenerateResolversCall(c, w)

SpecEntrypoints == Init /\ [][NextEntrypoints]_vars

----------------------------------------------------------------------------
(* The builder under type definitions of every group, added in any order *)

AllGroups == {Null, Str(S_query), Str(S_mutation), Str(S_subscription)}

NextOrdered ==
  \/ calls < MaxOrderedCalls /\ RegisterGuards(FALSE, <<"TestGuard">>)
  \/ calls < MaxOrderedCalls /\ \E g \in AllGroups : AddTypeDef(S_A, Undefined, g)
  \/ calls < MaxOrderedCalls /\ \E g \in AllGroups :
       AddTypeDef(S_B, Arr(<<S_test_guard>>), g)
  \/ \E c \in FooContexts : GenerateTypeDefsCall(c, Null)

SpecOrdered == Init /\ [][NextOrdered]_vars

----------------------------------------------------------------------------
(* validateGuards and determineRunnableGuards applied to a list of guard    *)
(* references, on a builder with some guards registered                     *)

SeqsUpTo(S, n) == UNION {[1..m -> S] : m \in 0..n}

\* guard references: plain ids, registered or not, and parameterized ones
GuardRefs == {S_test_guard, S_other_guard, S_is_admin, S_test_guard_xy, S_other_guard_x}

\* whitelists of guard ids
IdWhitelists ==
  {<<>>, <<S_test_guard>>, <<S_other_guard>>, <<S_other_guard, S_test_guard>>,
   <<S_is_admin>>}

\* a new builder after registerGuards(classes); last holds the arguments of
\* the call to come
InitGuardLists ==
  /\ \E classes \in SeqsUpTo(GuardClasses, MaxRegistered) :
       /\ guards = RegisterEach(classes, <<>>, <<>>).guards
       /\ guardInstances = RegisterEach(classes, <<>>, <<>>).guardInstances
  /\ typeDefs = <<[k |-> S_null, v |-> <<>>]>>
  /\ resolvers = <<>>
  /\ \E refs \in SeqsUpTo(GuardRefs, MaxRefs), c \in Contexts, w \in IdWhitelists :
       last = [NoCall EXCEPT !.guards = Arr(refs), !.context = c, !.whitelist = Arr(w)]
  /\ calls = 0

NextGuardLists ==
  \/ last.op = "constructor" /\ ValidateGuardsCall(last.guards, last.context)
  \/ last.op = "constructor" /\ DetermineRunnableGuardsCall(last.guards, last.whitelist.a)

SpecGuardLists == InitGuardLists /\ [][NextGuardLists]_vars

----------------------------------------------------------------------------
(* Vocabulary of the properties *)

\* the bucket keys of the four groups
GroupKeys == {S_null, S_query, S_mutation, S_subscription}

\* the fragments of a bucket of a store object (none when the bucket is absent)
Bucket(store, key) == IF HasOwnProperty(store, key) THEN Own(store, key) ELSE <<>>

\* a guard id with a registered instance
Registered(id) == \E i \in 1..Len(guardInstances) : guardInstances[i].k = id

\* a guard id listed in an explicit whitelist
Listed(whitelist, id) ==
  whitelist.t = "array" /\ \E i \in 1..Len(whitelist.a) : whitelist.a[i] = id

\* the instance registered under an id
InstanceOf(id) ==
  guardInstances[CHOOSE i \in 1..Len(guardInstances) : guardInstances[i].k = id].v

\* a guard list that is an array of plain ids
PlainGuards(gs) == gs.t = "array" /\ \A i \in 1..Len(gs.a) : ":" \notin {gs.a[i][j] : j \in 1..Len(gs.a[i])}

\* the definition is held by one type-def fragment only
UniqueDefinition(d) ==
  Cardinality(UNION {{<<key, i>> : i \in {j \in 1..Len(Bucket(typeDefs, key)) :
                                          Bucket(typeDefs, key)[j].definition = d}} :
                     key \in GroupKeys}) = 1

\* the string d occurs in the string s
Occurs(d, s) == \E i \in 1..(Len(s) - Len(d) + 1) : SubSeq(s, i, i + Len(d) - 1) = d

\* the result object of generateResolvers holds name in the place of the group
ResolverEmitted(out, key, name) ==
  IF key = S_null
  THEN HasOwnProperty(out, name) /\ Own(out, name).t = "def"
  ELSE /\ HasOwnProperty(out, StartCase(key))
       /\ Own(out, StartCase(key)).t = "map"
       /\ HasOwnProperty(Own(out, StartCase(key)).m, name)

\* the most recent call is a generation call that returned
GeneratedTypeDefs == last.op = "generateTypeDefs"
GeneratedResolvers == last.op = "generateResolvers"

\* this step is a register or add call of the named operations
Called(ops) == calls' = calls + 1 /\ last'.op \in ops

\* a group that is a string outside query, mutation, subscription
OutsideGroup(group) == group.t = "string" /\ group.s \notin GroupKeys

----------------------------------------------------------------------------
(* Properties *)

\* every guard of the list is registered and left out of the explicit whitelist
AllOffWhitelist(gs, whitelist) ==
  /\ PlainGuards(gs)
  /\ Len(gs.a) > 0
  /\ whitelist.t = "array"
  /\ \A i \in 1..Len(gs.a) : Registered(gs.a[i]) /\ ~Listed(whitelist, gs.a[i])

\* C1: a fragment of any bucket whose guards are all registered and all left
\* out of the whitelist passed to the generator is emitted, whatever the
\* guards return for the context.
C1_OffWhitelistNeverBlocks ==
  /\ GeneratedTypeDefs =>
       \A key \in GroupKeys : \A i \in 1..Len(Bucket(typeDefs, key)) :
          LET f == Bucket(typeDefs, key)[i]
          IN AllOffWhitelist(f.guards, last.whitelist) => Occurs(f.definition, last.out)
  /\ GeneratedResolvers =>
       \A key \in GroupKeys : \A i \in 1..Len(Bucket(resolvers, key)) :
          LET e == Bucket(resolvers, key)[i]
          IN AllOffWhitelist(e.v.guards, last.whitelist)
               => ResolverEmitted(last.out, key, e.k)

\* the list names two different registered guards, both subject to the whitelist
TwoEnforcedGuards(gs, whitelist) ==
  /\ PlainGuards(gs)
  /\ Len(gs.a) = 2
  /\ gs.a[1] # gs.a[2]
  /\ \A i \in 1..2 :
       Registered(gs.a[i]) /\ (whitelist.t = "null" \/ Listed(whitelist, gs.a[i]))

\* both guards of the list return true for the context
BothValidate(gs, context) ==
  \A i \in 1..2 : ClassValidate(InstanceOf(gs.a[i]).cls, context)

\* C2: a fragment tagged with two registered guards that are both enforced is
\* in the output of the generators exactly when both guards return true for
\* the context, in either order of the two.
C2_TwoGuardsBothMustPass ==
  /\ GeneratedTypeDefs =>
       \A key \in GroupKeys : \A i \in 1..Len(Bucket(typeDefs, key)) :
          LET f == Bucket(typeDefs, key)[i]
          IN TwoEnforcedGuards(f.guards, last.whitelist) /\ UniqueDefinition(f.definition)
               => (Occurs(f.definition, last.out) <=> BothValidate(f.guards, last.context))
  /\ GeneratedResolvers =>
       \A key \in GroupKeys : \A i \in 1..Len(Bucket(resolvers, key)) :
          LET e == Bucket(resolvers, key)[i]
          IN TwoEnforcedGuards(e.v.guards, last.whitelist)
               => (ResolverEmitted(last.out, key, e.k)
                     <=> BothValidate(e.v.guards, last.context))

\* C2 witness: generateTypeDefs, with both guards registered and no whitelist,
\* emitted the only B, tagged [other_guard, test_guard] in the query group, for
\* the context both guards accept.
C2_Witness ==
  /\ GeneratedTypeDefs
  /\ last.whitelist = Null
  /\ last.context = [foo |-> "bar", other |-> "derp"]
  /\ \E i \in 1..Len(Bucket(typeDefs, S_query)) :
       /\ Bucket(typeDefs, S_query)[i].guards = BothGuardsReversed
       /\ Bucket(typeDefs, S_query)[i].definition = S_B
       /\ TwoEnforcedGuards(BothGuardsReversed, last.whitelist)
  /\ UniqueDefinition(S_B)
  /\ Occurs(S_B, last.out)

\* C3: addTypeDef, addResolver or addEntrypoint called with a group outside
\* the closed set raises the invalid-group error and leaves typeDefs and
\* resolvers exactly as they were.
C3_InvalidGroupLeavesStore ==
  [][Called({"addTypeDef", "addResolver", "addEntrypoint"}) /\ OutsideGroup(last'.group)
       => /\ last'.threw
          /\ last'.err = "InvalidGroup"
          /\ typeDefs' = typeDefs
          /\ resolvers' = resolvers]_vars

\* the groups, other than the one of key, whose bucket holds the name
OtherGroupsHolding(rs, key, name) ==
  {k \in GroupKeys \ {key} : HasOwnProperty(Bucket(rs, k), name)}

\* C4: addResolver with a name its group already holds raises and leaves the
\* stored fragments unchanged; with a name that only other groups hold it
\* succeeds, stores the new fragment, and keeps the others.
C4_DuplicateResolverRejected ==
  [][Called({"addResolver"}) /\ IsValidGroup(last'.group)
       => LET key == ToKey(last'.group)
              name == last'.name
          IN /\ HasOwnProperty(Bucket(resolvers, key), name)
                  => /\ last'.threw
                     /\ last'.err = "AlreadyDefined"
                     /\ resolvers' = resolvers
             /\ ~HasOwnProperty(Bucket(resolvers, key), name)
                /\ OtherGroupsHolding(resolvers, key, name) # {}
                  => /\ ~last'.threw
                     /\ HasOwnProperty(Bucket(resolvers', key), name)
                     /\ Own(Bucket(resolvers', key), name)
                          = [definition |-> last'.definition,
                             guards |-> Default(last'.guards, Arr(<<>>))]
                     /\ \A k \in OtherGroupsHolding(resolvers, key, name) :
                          Bucket(resolvers', k) = Bucket(resolvers, k)]_vars

\* C4 witness: Foo is held by the no-group bucket and by the query bucket,
\* and an addResolver of Foo in the query group with another definition has
\* just raised, the stored definition being the old one.
C4_Witness ==
  /\ last.op = "addResolver"
  /\ last.threw
  /\ last.err = "AlreadyDefined"
  /\ last.name = S_Foo
  /\ last.group = Str(S_query)
  /\ HasOwnProperty(Bucket(resolvers, S_null), S_Foo)
  /\ HasOwnProperty(Bucket(resolvers, S_query), S_Foo)
  /\ Own(Bucket(resolvers, S_query), S_Foo).definition # last.definition

\* every fragment of the type-def store
TypeDefFragments ==
  UNION {{Bucket(typeDefs, key)[i] : i \in 1..Len(Bucket(typeDefs, key))} :
         key \in GroupKeys}

\* C5: when no type-def fragment is in the output of generateTypeDefs, the
\* output is the empty string up to whitespace: no wrapper is emitted for a
\* group whose fragments were all filtered out.
C5_NothingSurvivesEmptyString ==
  GeneratedTypeDefs /\ (\A f \in TypeDefFragments : ~Occurs(f.definition, last.out))
    => RemoveWhitespace(last.out) = <<>>

\* C6: the result of generateResolvers holds the key of an entrypoint group
\* exactly when the group has a resolver fragment; the mapping under the key
\* holds names of the group only; with no resolver fragment anywhere the
\* result is the empty mapping.
C6_GroupKeyIffRegistered ==
  GeneratedResolvers =>
    /\ \A i \in 1..Len(entrypoints) :
         LET key == StartCase(entrypoints[i])
             bucket == Bucket(resolvers, entrypoints[i])
         IN /\ HasOwnProperty(last.out, key) <=> Len(bucket) > 0
            /\ HasOwnProperty(last.out, key) =>
                 /\ Own(last.out, key).t = "map"
                 /\ \A j \in 1..Len(Own(last.out, key).m) :
                      HasOwnProperty(bucket, Own(last.out, key).m[j].k)
    /\ (\A key \in GroupKeys : Len(Bucket(resolvers, key)) = 0) => last.out = <<>>

\* the list is an array of plain ids, one of which has no registered instance
NamesUnregistered(gs) ==
  PlainGuards(gs) /\ \E i \in 1..Len(gs.a) : ~Registered(gs.a[i])

\* C7: with no whitelist passed, a fragment of any bucket whose guard list
\* names an id without a registered instance is left out of the output, and
\* the generation call returns.
C7_UnregisteredGuardExcludes ==
  /\ GeneratedTypeDefs /\ last.whitelist = Null =>
       /\ ~last.threw
       /\ \A key \in GroupKeys : \A i \in 1..Len(Bucket(typeDefs, key)) :
            LET f == Bucket(typeDefs, key)[i]
            IN NamesUnregistered(f.guards) /\ UniqueDefinition(f.definition)
                 => ~Occurs(f.definition, last.out)
  /\ GeneratedResolvers /\ last.whitelist = Null =>
       /\ ~last.threw
       /\ \A key \in GroupKeys : \A i \in 1..Len(Bucket(resolvers, key)) :
            LET e == Bucket(resolvers, key)[i]
            IN NamesUnregistered(e.v.guards) => ~ResolverEmitted(last.out, key, e.k)

RECURSIVE OneByOne(_, _)
\* addTypeDef(e.definition, e.guards, e.group) for each element in order, up to
\* the first call that throws
OneByOne(td, list) ==
  IF Len(list) = 0 THEN [threw |-> FALSE, typeDefs |-> td]
  ELSE LET r == AddTypeDefTo(td, list[1].definition, list[1].guards, list[1].group)
       IN IF r.threw THEN r ELSE OneByOne(r.typeDefs, Tail(list))

\* C8: addTypeDefs(list) leaves the type-def store as the calls
\* addTypeDef(e.definition, e.guards, e.group), element by element, leave it.
C8_BulkEqualsOneByOne ==
  [][Called({"addTypeDefs"})
       => /\ typeDefs' = OneByOne(typeDefs, last'.out).typeDefs
          /\ last'.threw = OneByOne(typeDefs, last'.out).threw]_vars

\* the number of definitions generateTypeDefs puts in the wrapper of a group
TypeDefsInWrapper(group, context, guardWhitelist) ==
  IF TypeDefGroupSkipped(group) THEN 0
  ELSE Len(GroupTypeDefs(group, EffectiveWhitelist(guardWhitelist), context))

\* the number of entries under the key of a group in a generateResolvers result
ResolversUnderKey(out, group) ==
  IF HasOwnProperty(out, StartCase(group)) THEN Len(Own(out, StartCase(group)).m) ELSE 0

\* C9: on a builder filled through addEntrypoint only, failed calls included,
\* generateResolvers emits under each group key as many entries as
\* generateTypeDefs puts definitions in that group's wrapper for the same
\* context and whitelist.
C9_EntrypointsTravelTogether ==
  GeneratedResolvers =>
    \A i \in 1..Len(entrypoints) :
       ResolversUnderKey(last.out, entrypoints[i])
         = TypeDefsInWrapper(entrypoints[i], last.context, last.whitelist)

\* the position in guards of the latest registration declaring the id (0: none)
LatestRegistration(gs, id) ==
  IF \E k \in 1..Len(gs) : ClassId(gs[k]) = id
  THEN CHOOSE k \in 1..Len(gs) :
         ClassId(gs[k]) = id /\ \A j \in (k + 1)..Len(gs) : ClassId(gs[j]) # id
  ELSE 0

\* what the claim on the registry says of a call other than an unregistered lookup
RegistryKeepsOrderAndLatest ==
  /\ Called({"registerGuards"}) => guards' = guards \o last'.out
  /\ last'.op = "getGuards" => last'.out = guards'
  /\ last'.op = "getGuardIds" =>
       /\ \A i, j \in 1..Len(last'.out) : i # j => last'.out[i] # last'.out[j]
       /\ {last'.out[i] : i \in 1..Len(last'.out)}
            = {ClassId(guards'[k]) : k \in 1..Len(guards')}
  /\ last'.op = "getGuardInstance" /\ LatestRegistration(guards', last'.name) # 0 =>
       /\ ~last'.threw
       /\ last'.instance
            = [cls |-> guards'[LatestRegistration(guards', last'.name)],
               n |-> LatestRegistration(guards', last'.name)]

\* what the claim says of getGuardInstance for an id never registered
UnregisteredLookupRaises ==
  last'.op = "getGuardInstance" /\ LatestRegistration(guards', last'.name) = 0 =>
    last'.threw /\ last'.err = "NotFound"

\* C10: getGuards holds every registration in order, getGuardIds each distinct
\* id once, getGuardInstance returns the instance of the latest registration
\* of a registered id and raises not-found for an id never registered.
C10_Registry ==
  [][RegistryKeepsOrderAndLatest /\ UnregisteredLookupRaises]_vars

\* the part of C10 that concerns registered ids, registration order and
\* duplicates, on its own
RegistryOrderLemma == [][RegistryKeepsOrderAndLatest]_vars

\* this step is a generation call
Generating == calls' = calls /\ last'.op \in {"generateTypeDefs", "generateResolvers"}

C12_GenerationLeavesBuilder ==
  [][Generating =>
       /\ UNCHANGED <<typeDefs, resolvers, guards, guardInstances>>
       /\ last'.op = "generateTypeDefs"
            => last'.out = GenerateTypeDefs(last'.context, last'.whitelist)
       /\ last'.op = "generateResolvers"
            => last'.out = GenerateResolvers(last'.context, last'.whitelist)]_vars

\* generateResolvers has returned on a builder with registered guards and
\* guarded resolvers, some emitted and some not, and another context would
\* have been given another result
C12_Witness ==
  /\ GeneratedResolvers
  /\ Registered(S_test_guard) /\ Registered(S_other_guard)
  /\ \E key \in GroupKeys : \E i \in 1..Len(Bucket(resolvers, key)) :
       ResolverEmitted(last.out, key, Bucket(resolvers, key)[i].k)
  /\ \E key \in GroupKeys : \E i \in 1..Len(Bucket(resolvers, key)) :
       ~ResolverEmitted(last.out, key, Bucket(resolvers, key)[i].k)
  /\ \E c \in Contexts : GenerateResolvers(c, last.whitelist) # last.out

RECURSIVE Concat(_)
\* the strings of a list, one after the other
Concat(list) == IF Len(list) = 0 THEN <<>> ELSE list[1] \o Concat(Tail(list))

\* the definitions of a bucket that survive the guards, in insertion order
Survivors(key, context, guardWhitelist) ==
  LET kept == SelectSeq(Bucket(typeDefs, key),
                LAMBDA f : IF key = S_null THEN NullGroupPasses(f, context)
                           ELSE GroupPasses(f, EffectiveWhitelist(guardWhitelist),
                                            context))
  IN [i \in 1..Len(kept) |-> kept[i].definition]

\* the wrapper of a group without its whitespace; nothing for an empty bucket
Block(title, key, context, guardWhitelist) ==
  IF Len(Bucket(typeDefs, key)) = 0 THEN <<>>
  ELSE <<"t", "y", "p", "e">> \o title \o <<"{">>
       \o Concat(Survivors(key, context, guardWhitelist)) \o <<"}">>

\* C13: the output of generateTypeDefs is, whitespace aside, the surviving
\* no-group definitions in the order they were added, then the Query wrapper,
\* then the Mutation wrapper, then the Subscription wrapper, each holding its
\* surviving definitions in the order they were added, whatever the order in
\* which the groups received their fragments.
C13_NoGroupThenQueryMutationSubscription ==
  GeneratedTypeDefs =>
    RemoveWhitespace(last.out)
      = Concat(Survivors(S_null, last.context, last.whitelist))
        \o Block(<<"Q", "u", "e", "r", "y">>, S_query, last.context, last.whitelist)
        \o Block(<<"M", "u", "t", "a", "t", "i", "o", "n">>, S_mutation,
                 last.context, last.whitelist)
        \o Block(<<"S", "u", "b", "s", "c", "r", "i", "p", "t", "i", "o", "n">>,
                 S_subscription, last.context, last.whitelist)

\* the position of a bucket among the keys of typeDefs, in creation order
BucketPosition(key) == CHOOSE i \in 1..Len(typeDefs) : typeDefs[i].k = key

\* generateTypeDefs has returned on a store whose mutation bucket was created
\* before the query bucket, the query bucket holding B before A, and the
\* output holds the Query wrapper before the Mutation wrapper
C13_Witness ==
  /\ GeneratedTypeDefs
  /\ HasOwnProperty(typeDefs, S_mutation) /\ HasOwnProperty(typeDefs, S_query)
  /\ BucketPosition(S_mutation) < BucketPosition(S_query)
  /\ Len(Bucket(typeDefs, S_query)) = 2
  /\ Bucket(typeDefs, S_query)[1].definition = S_B
  /\ Bucket(typeDefs, S_query)[2].definition = S_A
  /\ RemoveWhitespace(last.out)
       = <<"t", "y", "p", "e", "Q", "u", "e", "r", "y", "{", "B", "A", "}",
           "t", "y", "p", "e", "M", "u", "t", "a", "t", "i", "o", "n", "{", "A", "}">>

\* the guard identifier of a reference: the part before the first ':'
RefId(ref) ==
  IF \A i \in 1..Len(ref) : ref[i] # ":" THEN ref
  ELSE SubSeq(ref, 1, (CHOOSE i \in 1..Len(ref) :
                         ref[i] = ":" /\ \A j \in 1..(i - 1) : ref[j] # ":") - 1)

\* the identifiers of the first n references of a list
RefIds(refs, n) == [i \in 1..n |-> RefId(refs[i])]

\* the reference names a registered guard whose validate returns true
RefPasses(ref, context) ==
  Registered(RefId(ref)) /\ ClassValidate(InstanceOf(RefId(ref)).cls, context)

\* the position of the first reference that is unregistered or whose validate
\* returns false (0: none)
FirstStop(refs, context) ==
  IF \A i \in 1..Len(refs) : RefPasses(refs[i], context) THEN 0
  ELSE CHOOSE i \in 1..Len(refs) :
         ~RefPasses(refs[i], context) /\ \A j \in 1..(i - 1) : RefPasses(refs[j], context)

C15_RunnableGuardsAreListedOnes ==
  last.op = "determineRunnableGuards" /\ last.guards.t = "array" =>
    last.out = SelectSeq(last.guards.a,
                         LAMBDA ref : \E i \in 1..Len(last.whitelist.a) :
                                         last.whitelist.a[i] = RefId(ref))

\* determineRunnableGuards(['other_guard:x', 'test_guard:x,y'], ['test_guard'])
\* has returned ['test_guard:x,y']
C15_Witness ==
  /\ last.op = "determineRunnableGuards"
  /\ last.guards = Arr(<<S_other_guard_x, S_test_guard_xy>>)
  /\ last.whitelist = Arr(<<S_test_guard>>)
  /\ last.out = <<S_test_guard_xy>>

====
